---- MODULE Spec2Model ----
(***************************************************************************)
(* Language Companion: the spaced-repetition scheduler (utils/srs.py), the *)
(* JSON card store (utils/storage.py) and the review session of the        *)
(* Streamlit script (app/app.py).                                          *)
(*                                                                         *)
(* Representation.                                                         *)
(*  - A card is a record with the fields term, lang, translation, ease,    *)
(*    step, due.  A dict key that is not there is the marker Absent /      *)
(*    AbsentS / DueAbsent, a JSON null is Null / NullS / DueNull.  pos,    *)
(*    example_source and example_en are treated by every modelled line     *)
(*    exactly like translation and are not carried.                        *)
(*  - ease is counted in hundredths (2.5 is 250).                          *)
(*  - A datetime is [day, tod, tz]: the day number, the time of day and    *)
(*    whether it carries a UTC offset.  A due STRING is [kind, day, tod]:  *)
(*    kind says which text it is ("date" is YYYY-MM-DD, "datetime" is      *)
(*    YYYY-MM-DDThh:mm:ss, "aware" is a datetime text with an offset,      *)
(*    "garbage" is a text fromisoformat rejects, "empty" is "").           *)
(*  - The store file is [body, cards, junk]: body "missing" is no file,    *)
(*    "none" is a file holding no document, "doc" a JSON object with the   *)
(*    cards list, "nocards" a JSON value without a cards list; junk counts *)
(*    the cells that follow the document in the file.                      *)
(***************************************************************************)
EXTENDS Integers, Sequences, FiniteSets, TLC

VARIABLES
    file,          \* the content of src/data/srs_db.json
    today,         \* the current UTC day
    start_review,  \* st.session_state["_start_review"]
    review_idx,    \* st.session_state["_review_idx"], Unset before its first use
    view,          \* what the review section rendered on the last run
    card,          \* due_cards[i] of the last run, captured by _grade
    nGrades,       \* the gradings so far
    last,          \* the last operation: its inputs, the cards before it, its outcome
    seen,          \* the review session: the cards due at its start, the cards presented
    fn,            \* the pure-function harness
    procs          \* the interleaved load-mutate-save operations

vars == <<file, today, start_review, review_idx, view, card, nGrades, last, seen, fn, procs>>

----------------------------------------------------------------------------
(* Bounds of the model *)
MaxDay == 1
MaxCards == 2
MaxGrades == 1
MaxRegrades == 2
MaxStore == 2
MaxSchedDay == 3

(* utils/constants.py *)
SRS_INTERVALS_DAYS == <<1, 3, 7, 14, 30>>
DEFAULT_EASE == 250
REVIEW_BATCH_SIZE == 15

(* literals of schedule_next, in hundredths *)
EaseFloor == 130
EaseCeil == 300
AgainPenalty == 20
HardPenalty == 5
EasyBonus == 5

K == Len(SRS_INTERVALS_DAYS)

----------------------------------------------------------------------------
(* Missing keys and JSON nulls *)
Absent == -1000
Null == -1001
AbsentS == "<absent>"
NullS == "<null>"

DueAbsent == [kind |-> "absent", day |-> 0, tod |-> 0]
DueNull == [kind |-> "null", day |-> 0, tod |-> 0]
DueEmpty == [kind |-> "empty", day |-> 0, tod |-> 0]
DueGarbage == [kind |-> "garbage", day |-> 0, tod |-> 0]

Grades == {"again", "hard", "good", "easy", "meh"}

Min(a, b) == IF a <= b THEN a ELSE b
Max(a, b) == IF a >= b THEN a ELSE b

----------------------------------------------------------------------------
(* utils/srs.py *)

(* _today(): the UTC instant truncated to midnight, a naive datetime *)
Today(d) == [day |-> d, tod |-> 0, tz |-> FALSE]

(* datetime + timedelta(days=n) *)
PlusDays(dt, n) == [dt EXCEPT !.day = dt.day + n]

(* datetime.isoformat(): a datetime always prints its time of day *)
IsoFormat(dt) ==
    IF dt.tz THEN [kind |-> "aware", day |-> dt.day, tod |-> dt.tod]
    ELSE [kind |-> "datetime", day |-> dt.day, tod |-> dt.tod]

(* datetime.fromisoformat(s): [ok, dt]; ok is FALSE where it raises *)
FromIsoFormat(s) ==
    CASE s.kind = "date" -> [ok |-> TRUE, dt |-> [day |-> s.day, tod |-> 0, tz |-> FALSE]]
      [] s.kind = "datetime" -> [ok |-> TRUE, dt |-> [day |-> s.day, tod |-> s.tod, tz |-> FALSE]]
      [] s.kind = "aware" -> [ok |-> TRUE, dt |-> [day |-> s.day, tod |-> s.tod, tz |-> TRUE]]
      [] OTHER -> [ok |-> FALSE, dt |-> Today(0)]

(* a > b on datetimes, in the same form *)
DateTimeGt(a, b) ==
    IF a.tz # b.tz THEN [ok |-> FALSE, ge |-> FALSE]
    ELSE [ok |-> TRUE, ge |-> (a.day > b.day) \/ (a.day = b.day /\ a.tod > b.tod)]

(* a >= b on datetimes: [ok, ge]; naive against aware raises TypeError *)
DateTimeGe(a, b) ==
    IF a.tz # b.tz THEN [ok |-> FALSE, ge |-> FALSE]
    ELSE [ok |-> TRUE, ge |-> (a.day > b.day) \/ (a.day = b.day /\ a.tod >= b.tod)]

(* `if not due`: a missing key, None and "" are falsy *)
Falsy(due) == due.kind \in {"absent", "null", "empty"}

is_due(c, d) ==
    IF Falsy(c.due) THEN TRUE
    ELSE LET p == FromIsoFormat(c.due) IN
         IF ~p.ok THEN TRUE
         ELSE LET g == DateTimeGe(Today(d), p.dt) IN
              IF ~g.ok THEN TRUE ELSE g.ge

(* SRS_INTERVALS_DAYS[step] with Python's indexing: [ok, v] *)
LadderAt(step) ==
    IF step >= 0 /\ step < K THEN [ok |-> TRUE, v |-> SRS_INTERVALS_DAYS[step + 1]]
    ELSE IF step < 0 /\ step >= -K THEN [ok |-> TRUE, v |-> SRS_INTERVALS_DAYS[K + step + 1]]
    ELSE [ok |-> FALSE, v |-> 0]

(* the if/elif chain of schedule_next on (ease, step) *)
TransitionNoClamp(ease, step, quality) ==
    CASE quality = "again" -> [step |-> 0, ease |-> ease - AgainPenalty]
      [] quality = "hard" -> [step |-> step, ease |-> ease - HardPenalty]
      [] quality = "good" -> [step |-> step + 1, ease |-> ease]
      [] quality = "easy" -> [step |-> step + 2, ease |-> ease + EasyBonus]
      [] OTHER -> [step |-> step + 1, ease |-> ease]
Transition(ease, step, quality) ==
    CASE quality = "again" -> [step |-> 0, ease |-> Max(EaseFloor, ease - AgainPenalty)]
      [] quality = "hard" -> [step |-> step, ease |-> Max(EaseFloor, ease - HardPenalty)]
      [] quality = "good" -> [step |-> Min(step + 1, K - 1), ease |-> ease]
      [] quality = "easy" -> [step |-> Min(step + 2, K - 1), ease |-> Min(EaseCeil, ease + EasyBonus)]
      [] OTHER -> [step |-> Min(step + 1, K - 1), ease |-> ease]

(* the step whose interval schedule_next adds to today *)
DueStepOld(old, new) == old
DueStep(old, new) == new

(* schedule_next(card, quality) called on day d: [raised, card].         *)
(* float(None) and int(None) raise TypeError, an index outside the ladder *)
(* raises IndexError; the card is written only after both.                *)
schedule_next(c, quality, d) ==
    IF c.ease = Null \/ c.step = Null THEN [raised |-> TRUE, card |-> c]
    ELSE LET ease == IF c.ease = Absent THEN DEFAULT_EASE ELSE c.ease
             step == IF c.step = Absent THEN 0 ELSE c.step
             t == Transition(ease, step, quality)
             iv == LadderAt(DueStep(step, t.step))
         IN  IF ~iv.ok THEN [raised |-> TRUE, card |-> c]
             ELSE [raised |-> FALSE,
                   card |-> [c EXCEPT !.step = t.step, !.ease = t.ease,
                                      !.due = IsoFormat(PlusDays(Today(d), iv.v))]]

----------------------------------------------------------------------------
(* Cards *)

(* str.lower() *)
Lower(t) == IF t = "Haus" THEN "haus" ELSE IF t = "Buch" THEN "buch" ELSE t

MkCard(term, lang, translation, ease, step, due) ==
    [term |-> term, lang |-> lang, translation |-> translation,
     ease |-> ease, step |-> step, due |-> due]

NoCard == MkCard(AbsentS, AbsentS, AbsentS, Absent, Absent, DueAbsent)

----------------------------------------------------------------------------
(* The scheduler and the due-date evaluator as pure functions: the inputs  *)
(* are drawn in InitSched, the actions call the functions.                 *)

EaseInputs == {Absent, Null, 130, 135, 145, 250, 295, 300}
StepInputs == {Absent, -1, 0, 1, 2, 3, 4, 5}
DueDays == 0 .. (MaxDay + 1)
DueInputs ==
    {DueAbsent, DueNull, DueEmpty, DueGarbage}
    \cup [kind : {"date"}, day : DueDays, tod : {0}]
    \cup [kind : {"datetime", "aware"}, day : DueDays, tod : {0, 1}]

SchedInputs ==
    {MkCard("Haus", "German", "house", e, s, d) :
        e \in EaseInputs, s \in StepInputs, d \in DueInputs}

FnIdle == [pc |-> "off", arg |-> NoCard, q |-> "good", raised |-> FALSE,
           cur |-> NoCard, n |-> 0, schedDay |-> 0, checked |-> FALSE,
           isdue |-> FALSE]

CallScheduleNext(q) ==
    /\ fn.pc \in {"input", "scheduled"}
    /\ ~fn.raised
    /\ fn.n < MaxRegrades
    /\ LET r == schedule_next(fn.cur, q, today) IN
       fn' = [fn EXCEPT !.pc = "scheduled", !.arg = fn.cur, !.q = q,
                        !.raised = r.raised, !.cur = r.card, !.n = fn.n + 1,
                        !.schedDay = today, !.checked = FALSE]
    /\ UNCHANGED <<file, today, start_review, review_idx, view, card, nGrades, last, seen, procs>>

CallIsDue ==
    /\ fn.pc \in {"input", "scheduled"}
    /\ ~fn.checked
    /\ fn' = [fn EXCEPT !.checked = TRUE, !.isdue = is_due(fn.cur, today)]
    /\ UNCHANGED <<file, today, start_review, review_idx, view, card, nGrades, last, seen, procs>>

DayPasses ==
    /\ fn.pc \in {"input", "scheduled"}
    /\ today < MaxSchedDay
    /\ today' = today + 1
    /\ fn' = [fn EXCEPT !.checked = FALSE]
    /\ UNCHANGED <<file, start_review, review_idx, view, card, nGrades, last, seen, procs>>

----------------------------------------------------------------------------
(* utils/storage.py *)

EmptyDoc == [body |-> "doc", cards |-> <<>>, junk |-> 0]
NoFile == [body |-> "missing", cards |-> <<>>, junk |-> 0]

(* the default schema {"lessons": [], "cards": []} as a loaded dict *)
DefaultDb == [hasCards |-> TRUE, cards |-> <<>>]

(* _ensure_file(): writes the empty schema where no file exists *)
ensure_file(f) == IF f.body = "missing" THEN EmptyDoc ELSE f

(* json.loads(path.read_text()) succeeds on one JSON value and nothing else *)
Parses(f) == f.body \in {"doc", "nocards"} /\ f.junk = 0

(* load_db() on the file _ensure_file left: any exception gives the default *)
load_db(f) ==
    IF Parses(f) THEN [hasCards |-> f.body = "doc", cards |-> f.cards]
    ELSE DefaultDb

(* json.dumps(db) as file content *)
Dumps(db) == [body |-> IF db.hasCards THEN "doc" ELSE "nocards",
              cards |-> db.cards, junk |-> 0]

(* save_db(db): write_text replaces the whole content *)
save_db(db) == Dumps(db)

(* c.get("lang", "auto"): the default stands in for a missing key only *)
LangGet(c) == IF c.lang = AbsentS THEN "auto" ELSE c.lang

(* c["term"] raises KeyError on a missing key, None.lower() AttributeError *)
HasTermLax(c) == TRUE
HasTerm(c) == c.term \notin {AbsentS, NullS}

(* (c["term"].lower(), c.get("lang", "auto")) *)
Key(c) == <<Lower(c.term), LangGet(c)>>

(* the dict comprehension of upsert_cards: a later card with the same key *)
(* replaces the earlier index; 0 stands for `key not in existing`          *)
Existing(cards, key) ==
    LET hits == {i \in 1 .. Len(cards) : Key(cards[i]) = key} IN
    IF hits = {} THEN 0 ELSE CHOOSE i \in hits : \A j \in hits : i >= j

(* dict.update({k: v for k, v in new_card.items() if v is not None}) *)
MergeOverwrite(old, new) ==
    [term |-> IF new.term = AbsentS THEN old.term ELSE new.term,
     lang |-> IF new.lang = AbsentS THEN old.lang ELSE new.lang,
     translation |-> IF new.translation = AbsentS THEN old.translation ELSE new.translation,
     ease |-> IF new.ease = Absent THEN old.ease ELSE new.ease,
     step |-> IF new.step = Absent THEN old.step ELSE new.step,
     due |-> IF new.due.kind = "absent" THEN old.due ELSE new.due]
Merge(old, new) ==
    [term |-> IF new.term \in {AbsentS, NullS} THEN old.term ELSE new.term,
     lang |-> IF new.lang \in {AbsentS, NullS} THEN old.lang ELSE new.lang,
     translation |-> IF new.translation \in {AbsentS, NullS} THEN old.translation
                     ELSE new.translation,
     ease |-> IF new.ease \in {Absent, Null} THEN old.ease ELSE new.ease,
     step |-> IF new.step \in {Absent, Null} THEN old.step ELSE new.step,
     due |-> IF new.due.kind \in {"absent", "null"} THEN old.due ELSE new.due]

(* the for loop of upsert_cards from item i on; loaded is db["cards"] as   *)
(* load_db returned it (the index is built once, before the loop), cards   *)
(* the list so far, merged the indices updated so far                      *)
RECURSIVE UpsertLoop(_, _, _, _, _)
UpsertLoop(loaded, cards, items, i, merged) ==
    IF i > Len(items) THEN [raised |-> FALSE, cards |-> cards, merged |-> merged]
    ELSE IF ~HasTerm(items[i]) THEN [raised |-> TRUE, cards |-> cards, merged |-> merged]
    ELSE LET idx == Existing(loaded, Key(items[i])) IN
         IF idx # 0
         THEN UpsertLoop(loaded, [cards EXCEPT ![idx] = Merge(cards[idx], items[i])],
                         items, i + 1, Append(merged, idx))
         ELSE UpsertLoop(loaded, Append(cards, items[i]), items, i + 1,
                         Append(merged, 0))

(* lines 62-77 of upsert_cards on the loaded db: [raised, db, merged] *)
upsert_mutate(db, items) ==
    IF ~db.hasCards \/ \E i \in 1 .. Len(db.cards) : ~HasTerm(db.cards[i])
    THEN [raised |-> TRUE, db |-> db, merged |-> <<>>]
    ELSE LET r == UpsertLoop(db.cards, db.cards, items, 1, <<>>) IN
         [raised |-> r.raised, db |-> [db EXCEPT !.cards = r.cards],
          merged |-> r.merged]

(* upsert_cards(new_cards) on file f: [raised, count, file, merged].  An   *)
(* exception leaves the file as _ensure_file left it: save_db is the last  *)
(* statement.                                                              *)
upsert_cards(f, items) ==
    LET f1 == ensure_file(f)
        m == upsert_mutate(load_db(f1), items)
    IN  IF m.raised
        THEN [raised |-> TRUE, count |-> 0, file |-> f1, merged |-> m.merged]
        ELSE [raised |-> FALSE, count |-> Len(items), file |-> save_db(m.db),
              merged |-> m.merged]

----------------------------------------------------------------------------
(* app/app.py: the review session *)

Unset == -1

Take(seq, n) == IF Len(seq) <= n THEN seq ELSE SubSeq(seq, 1, n)

(* [c for c in db["cards"] if is_due(c)][:REVIEW_BATCH_SIZE] *)
DueCards(cards, d) == Take(SelectSeq(cards, LAMBDA c : is_due(c, d)), REVIEW_BATCH_SIZE)

(* One run of the review section (lines 210-236) on file f with the        *)
(* session state (start, idx) on day d: the file, the session state, what  *)
(* is shown and the card the grade buttons capture.                        *)
RenderReview(f, start, idx, d) ==
    IF ~start
    THEN [file |-> f, start |-> start, idx |-> idx, view |-> "idle", card |-> NoCard]
    ELSE LET f1 == ensure_file(f)
             db == load_db(f1)
         IN  IF ~db.hasCards
             THEN [file |-> f1, start |-> start, idx |-> idx, view |-> "error",
                   card |-> NoCard]
             ELSE LET due == DueCards(db.cards, d)
                      i == IF idx = Unset THEN 0 ELSE idx
                  IN  IF Len(due) = 0
                      THEN [file |-> f1, start |-> start, idx |-> idx,
                            view |-> "nodue", card |-> NoCard]
                      ELSE IF i >= Len(due)
                      THEN [file |-> save_db(db), start |-> FALSE, idx |-> 0,
                            view |-> "complete", card |-> NoCard]
                      ELSE [file |-> f1, start |-> start, idx |-> i,
                            view |-> "card", card |-> due[i + 1]]

(* the first j with the term and lang of the captured card, 0 if none *)
GradeMatch(cards, c) ==
    LET hits == {j \in 1 .. Len(cards) :
                    /\ Lower(cards[j].term) = Lower(c.term)
                    /\ LangGet(cards[j]) = LangGet(c)}
    IN  IF hits = {} THEN 0 ELSE CHOOSE j \in hits : \A k \in hits : j <= k

(* a grading that moves the graded card to the end of the list *)
grade_mutate_requeue(db2, c, q, d) ==
    IF ~db2.hasCards THEN [raised |-> TRUE, db |-> db2]
    ELSE LET j == GradeMatch(db2.cards, c) IN
         IF j = 0 THEN [raised |-> FALSE, db |-> db2]
         ELSE LET r == schedule_next(db2.cards[j], q, d)
                  n == Len(db2.cards)
              IN  [raised |-> r.raised,
                   db |-> IF r.raised THEN db2
                          ELSE [db2 EXCEPT !.cards =
                                   Append(SubSeq(db2.cards, 1, j - 1) \o
                                          SubSeq(db2.cards, j + 1, n), r.card)]]

(* lines 252-258 of _grade on the loaded db2: [raised, db] *)
grade_mutate(db2, c, q, d) ==
    IF ~db2.hasCards THEN [raised |-> TRUE, db |-> db2]
    ELSE LET j == GradeMatch(db2.cards, c) IN
         IF j = 0 THEN [raised |-> FALSE, db |-> db2]
         ELSE LET r == schedule_next(db2.cards[j], q, d) IN
              [raised |-> r.raised,
               db |-> IF r.raised THEN db2 ELSE [db2 EXCEPT !.cards[j] = r.card]]

(* _grade(q) on file f for the captured card c on day d: [raised, file] *)
grade(f, c, q, d) ==
    LET f1 == ensure_file(f)
        m == grade_mutate(load_db(f1), c, q, d)
    IN  IF m.raised THEN [raised |-> TRUE, file |-> f1]
        ELSE [raised |-> FALSE, file |-> save_db(m.db)]

ButtonGrades == {"again", "hard", "good", "easy"}

(* the last operation: what was called, whether it found the file damaged, *)
(* whether its list held an item without a term, and how it ended; items,  *)
(* pre and merged are filled in by the upsert harness only                 *)
NoOp == [op |-> "none", raised |-> FALSE, count |-> 0, q |-> "good",
         foundCorrupt |-> FALSE, badInput |-> FALSE,
         items |-> <<>>, pre |-> <<>>, merged |-> <<>>]

(* the file holds something else than a document with a cards list *)
Corrupt(f) == f.body \in {"none", "nocards"} \/ f.junk > 0

(* the script's run after an interaction, writing the session variables *)
Rerun(f, start, idx) ==
    LET r == RenderReview(f, start, idx, today) IN
    /\ file' = r.file
    /\ start_review' = r.start
    /\ review_idx' = r.idx
    /\ view' = r.view
    /\ card' = r.card

(* the positions in db["cards"] of the cards of due_cards (line 215) *)
DuePos(cards, d) ==
    Take(SelectSeq([j \in 1 .. Len(cards) |-> j], LAMBDA j : is_due(cards[j], d)),
         REVIEW_BATCH_SIZE)

(* the position in db["cards"] of the card a run presents (line 235), 0 if *)
(* the run presents none                                                   *)
ShownPos(f, start, idx, d) ==
    LET r == RenderReview(f, start, idx, d) IN
    IF r.view = "card"
    THEN DuePos(load_db(ensure_file(f)).cards, d)[r.idx + 1]
    ELSE 0

NoSeen == [due |-> {}, shown |-> {}]

(* what a run adds to the record of the session; a run that starts the     *)
(* session (fresh) first notes the cards that are due                      *)
Track(f, start, idx, fresh) ==
    LET db == load_db(ensure_file(f))
        due0 == IF fresh
                THEN IF db.hasCards
                     THEN {DuePos(db.cards, today)[k] :
                              k \in 1 .. Len(DuePos(db.cards, today))}
                     ELSE {}
                ELSE seen.due
        shown0 == IF fresh THEN {} ELSE seen.shown
    IN  seen' = [due |-> due0,
                 shown |-> shown0 \cup ({ShownPos(f, start, idx, today)} \ {0})]

(* "Start Review" (lines 146-147), then the review section of the same run *)
ClickStartReview ==
    /\ Rerun(file, TRUE, review_idx)
    /\ Track(file, TRUE, review_idx, ~start_review)
    /\ last' = [NoOp EXCEPT !.op = "start", !.foundCorrupt = Corrupt(file)]
    /\ UNCHANGED <<today, nGrades, fn, procs>>

(* "Close" (lines 217-221): the button is read only on a run that finds no *)
(* due card                                                                *)
ClickClose ==
    /\ view = "nodue"
    /\ LET r == RenderReview(file, start_review, review_idx, today) IN
       /\ file' = r.file
       /\ start_review' = IF r.view = "nodue" THEN FALSE ELSE r.start
       /\ review_idx' = r.idx
       /\ view' = r.view
       /\ card' = r.card
    /\ Track(file, start_review, review_idx, FALSE)
    /\ last' = [NoOp EXCEPT !.op = "close", !.foundCorrupt = Corrupt(file)]
    /\ UNCHANGED <<today, nGrades, fn, procs>>

(* a grade button: the callback _grade(q) of the last run (lines 250-260), *)
(* then the script runs again.  An exception in the callback leaves the    *)
(* session state alone.                                                    *)
ClickGrade(q) ==
    /\ view = "card"
    /\ nGrades < MaxGrades
    /\ LET g == grade(file, card, q, today) IN
       /\ IF g.raised
          THEN /\ file' = g.file
               /\ view' = "error"
               /\ UNCHANGED <<start_review, review_idx, card, seen>>
          ELSE /\ Rerun(g.file, start_review, review_idx + 1)
               /\ Track(g.file, start_review, review_idx + 1, FALSE)
       /\ last' = [NoOp EXCEPT !.op = "grade", !.raised = g.raised, !.q = q,
                               !.foundCorrupt = Corrupt(file)]
    /\ nGrades' = nGrades + 1
    /\ UNCHANGED <<today, fn, procs>>

----------------------------------------------------------------------------
(* The vocabulary items handed to upsert_cards *)

Item(term, lang, translation) == MkCard(term, lang, translation, Absent, Absent, DueAbsent)

(* new_cards is List[Dict[str, Any]], parsed from the model's JSON reply:  *)
(* a case variant of a term, a missing or null lang, a null translation, a *)
(* missing term, and a dict that carries ease and step                     *)

ItemSet ==
    { Item("Haus", "German", "house"),
      Item("haus", "German", "home"),
      Item("Haus", AbsentS, "house"),
      Item("Haus", NullS, "house"),
      Item("Haus", "German", NullS),
      Item(AbsentS, "German", "house"),
      MkCard("Haus", "German", AbsentS, 500, 9, DueAbsent) }

(* extract_vocab_json sets d["lang"] = lang on every item it returns       *)
(* (agent.py lines 213-214): the items the app upserts carry a lang         *)
AppItemSet == {c \in ItemSet : c.lang = "German"}

(* the lists handed over: one item, or two (alike or not) *)
ListsOver(S) == {<<x>> : x \in S} \cup {<<x, y>> : x \in S, y \in S}

(* "Save vocab to Review" (lines 128-143): upsert_cards(items), then the   *)
(* review section of the same run; an exception ends the run               *)
Upsert(items) ==
    /\ LET u == upsert_cards(file, items) IN
       /\ Len(u.file.cards) <= MaxCards
       /\ IF u.raised
          THEN /\ file' = u.file
               /\ view' = "error"
               /\ UNCHANGED <<start_review, review_idx, card, seen>>
          ELSE /\ Rerun(u.file, start_review, review_idx)
               /\ Track(u.file, start_review, review_idx, FALSE)
       /\ last' = [NoOp EXCEPT !.op = "upsert", !.raised = u.raised,
                               !.count = u.count, !.foundCorrupt = Corrupt(file),
                               !.badInput = \E i \in 1 .. Len(items) : ~HasTerm(items[i])]
    /\ UNCHANGED <<today, nGrades, fn, procs>>

(* midnight UTC passes *)
Tick ==
    /\ today < MaxDay
    /\ today' = today + 1
    /\ UNCHANGED <<file, start_review, review_idx, view, card, nGrades, last, seen, fn, procs>>

NoProcs == [p |-> <<>>, order |-> <<>>]

Init ==
    /\ file = NoFile
    /\ today = 0
    /\ start_review = FALSE
    /\ review_idx = Unset
    /\ view = "idle"
    /\ card = NoCard
    /\ nGrades = 0
    /\ last = NoOp
    /\ seen = NoSeen
    /\ fn = FnIdle
    /\ procs = NoProcs

Next ==
    \/ \E items \in ListsOver(AppItemSet) : Upsert(items)
    \/ ClickStartReview
    \/ ClickClose
    \/ \E q \in ButtonGrades : ClickGrade(q)
    \/ Tick

Spec == Init /\ [][Next]_vars

(* the review of a deck of two terms: a term, a case variant of it with    *)
(* another translation, and a second term                                  *)
ReviewItemSet ==
    { Item("Haus", "German", "house"),
      Item("haus", "German", "home"),
      Item("Buch", "German", "book") }

NextReview ==
    \/ \E items \in ListsOver(ReviewItemSet) : Upsert(items)
    \/ ClickStartReview
    \/ ClickClose
    \/ \E q \in ButtonGrades : ClickGrade(q)
    \/ Tick

SpecReview == Init /\ [][NextReview]_vars

(* the pure functions on drawn inputs *)
InitSched ==
    /\ file = NoFile
    /\ today \in 0 .. MaxDay
    /\ start_review = FALSE
    /\ review_idx = Unset
    /\ view = "idle"
    /\ card = NoCard
    /\ nGrades = 0
    /\ last = NoOp
    /\ seen = NoSeen
    /\ \E c \in SchedInputs : fn = [FnIdle EXCEPT !.pc = "input", !.arg = c, !.cur = c]
    /\ procs = NoProcs

NextSched ==
    \/ \E q \in Grades : CallScheduleNext(q)
    \/ CallIsDue
    \/ DayPasses

SpecSched == InitSched /\ [][NextSched]_vars

----------------------------------------------------------------------------
(* The app on a store file that something outside the program damaged *)

(* the file after the damage: text that is no JSON, or a JSON value that   *)
(* parses and holds no cards list ({} for one)                             *)
Damaged(kind) ==
    IF kind = "unparseable" THEN [body |-> "none", cards |-> <<>>, junk |-> 1]
    ELSE [body |-> "nocards", cards |-> <<>>, junk |-> 0]

DamageFile(kind) ==
    /\ ~Corrupt(file)
    /\ file.body # "missing"
    /\ file' = Damaged(kind)
    /\ UNCHANGED <<today, start_review, review_idx, view, card, nGrades, last, seen, fn, procs>>

NextDamage ==
    \/ Next
    \/ \E kind \in {"unparseable", "nocards"} : DamageFile(kind)

SpecDamage == Init /\ [][NextDamage]_vars

----------------------------------------------------------------------------
(* Two load-mutate-save operations that overlap.  Nothing in storage.py or *)
(* app.py locks the file, and save_db is Path.write_text: open(mode='w'),  *)
(* which cuts the file to length 0, then the write of the text at offset 0 *)
(* of that descriptor.  Each is a step another operation can come between. *)

(* the length of a document's text, counted in entries: one for the frame, *)
(* one for each key a card holds                                           *)
CardLen(c) ==
    Cardinality({k \in {"term", "lang", "translation"} : c[k] # AbsentS})
    + (IF c.ease # Absent THEN 1 ELSE 0) + (IF c.step # Absent THEN 1 ELSE 0)
    + (IF c.due.kind # "absent" THEN 1 ELSE 0)

RECURSIVE CardsLen(_)
CardsLen(cards) ==
    IF cards = <<>> THEN 0 ELSE CardLen(Head(cards)) + CardsLen(Tail(cards))

FileLen(f) == (IF f.body \in {"missing", "none"} THEN 0 ELSE 1 + CardsLen(f.cards)) + f.junk

(* open(mode='w') on an existing file *)
Truncated == [body |-> "none", cards |-> <<>>, junk |-> 0]

(* write(text) at offset 0 through a descriptor opened earlier: the text   *)
(* replaces the first entries, what lies beyond its end stays              *)
WriteAtStart(f, db) ==
    LET text == Dumps(db) IN
    [text EXCEPT !.junk = Max(0, FileLen(f) - FileLen(text))]

RaceCardA == Item("Haus", "German", "house")
RaceCardB == Item("Haus", AbsentS, "house")

(* the operations that race: gradings of a card on show, and upserts *)
RaceGrades ==
    [kind : {"grade"}, c : {RaceCardA, RaceCardB}, q : ButtonGrades, items : {<<>>}]
RaceUpserts ==
    [kind : {"upsert"}, c : {NoCard}, q : {"good"},
     items : ListsOver({Item("haus", "German", "home"), Item("Buch", "German", "book")})]

Proc(op) == [pc |-> "start", op |-> op, db |-> DefaultDb]

(* load_db() and the mutation (lines 251-258, lines 61-77) *)
RaceLoad(p) ==
    /\ procs.p[p].pc = "start"
    /\ LET op == procs.p[p].op
           db == load_db(ensure_file(file))
           m == IF op.kind = "grade" THEN grade_mutate(db, op.c, op.q, today)
                ELSE upsert_mutate(db, op.items)
       IN  procs' = [procs EXCEPT !.p[p].pc = IF m.raised THEN "failed" ELSE "loaded",
                                  !.p[p].db = m.db]
    /\ UNCHANGED <<file, today, start_review, review_idx, view, card, nGrades, last, seen, fn>>

(* save_db: write_text opens the file for writing *)
RaceOpen(p) ==
    /\ procs.p[p].pc = "loaded"
    /\ file' = Truncated
    /\ procs' = [procs EXCEPT !.p[p].pc = "opened"]
    /\ UNCHANGED <<today, start_review, review_idx, view, card, nGrades, last, seen, fn>>

(* save_db: write_text writes the text and closes *)
RaceWrite(p) ==
    /\ procs.p[p].pc = "opened"
    /\ file' = WriteAtStart(file, procs.p[p].db)
    /\ procs' = [procs EXCEPT !.p[p].pc = "saved", !.order = Append(procs.order, p)]
    /\ UNCHANGED <<today, start_review, review_idx, view, card, nGrades, last, seen, fn>>

InitRace ==
    /\ file = Dumps([hasCards |-> TRUE, cards |-> <<RaceCardA, RaceCardB>>])
    /\ today = 0
    /\ start_review = TRUE
    /\ review_idx = 0
    /\ view = "card"
    /\ card = RaceCardA
    /\ nGrades = 0
    /\ last = NoOp
    /\ seen = NoSeen
    /\ fn = FnIdle
    /\ \E a \in RaceGrades : \E b \in RaceGrades \cup RaceUpserts :
          procs = [p |-> <<Proc(a), Proc(b)>>, order |-> <<>>]

NextRace == \E p \in {1, 2} : RaceLoad(p) \/ RaceOpen(p) \/ RaceWrite(p)

SpecRace == InitRace /\ [][NextRace]_vars

----------------------------------------------------------------------------
(* upsert_cards as a function of the file and the list: the file is drawn  *)
(* in InitUpsert among the stores that upserts and gradings leave, the     *)
(* action calls upsert_cards once and records the call.                    *)

(* a card as upsert_cards appends it, and as a grading on day 0 leaves it *)
StoredCardSet ==
    LET fresh == {c \in ItemSet : HasTerm(c)} IN
    fresh \cup {schedule_next(c, "again", 0).card : c \in fresh}

StoreInputs ==
    {NoFile} \cup
    {Dumps([hasCards |-> TRUE, cards |-> cs]) :
        cs \in UNION { [1 .. n -> StoredCardSet] : n \in 0 .. MaxStore }}

CallUpsert(items) ==
    /\ last.op = "none"
    /\ LET u == upsert_cards(file, items) IN
       /\ file' = u.file
       /\ last' = [NoOp EXCEPT !.op = "upsert", !.raised = u.raised,
                               !.count = u.count, !.items = items,
                               !.pre = ensure_file(file).cards,
                               !.merged = u.merged]
    /\ UNCHANGED <<today, start_review, review_idx, view, card, nGrades, seen, fn, procs>>

InitUpsert ==
    /\ file \in StoreInputs
    /\ today = 0
    /\ start_review = FALSE
    /\ review_idx = Unset
    /\ view = "idle"
    /\ card = NoCard
    /\ nGrades = 0
    /\ last = NoOp
    /\ seen = NoSeen
    /\ fn = FnIdle
    /\ procs = NoProcs

NextUpsert == \E items \in ListsOver(ItemSet) : CallUpsert(items)

SpecUpsert == InitUpsert /\ [][NextUpsert]_vars

----------------------------------------------------------------------------
(* Claims on the scheduler and the due-date evaluator (SpecSched) *)

(* a card as the data model allows it, or one still missing ease / step *)
ValidSchedArg(c) ==
    /\ c.ease = Absent \/ (c.ease >= EaseFloor /\ c.ease <= EaseCeil)
    /\ c.step = Absent \/ (c.step >= 0 /\ c.step <= K - 1)

Scheduled == fn.pc = "scheduled"

ArgEase == IF fn.arg.ease = Absent THEN 250 ELSE fn.arg.ease
ArgStep == IF fn.arg.step = Absent THEN 0 ELSE fn.arg.step

(* C3: schedule_next(card, grade) yields (step, ease) as the transition     *)
(* table says: again -> (0, max(1.3, ease-0.2)); hard -> (step, max(1.3,    *)
(* ease-0.05)); good -> (min(step+1, K-1), ease); easy -> (min(step+2,      *)
(* K-1), min(3.0, ease+0.05)); any other grade -> (min(step+1, K-1), ease)  *)
(* without failing; a missing ease counts as 2.5, a missing step as 0.      *)
C3_TransitionTable ==
    (Scheduled /\ ValidSchedArg(fn.arg)) =>
        /\ ~fn.raised
        /\ fn.q = "again" =>
              /\ fn.cur.step = 0
              /\ fn.cur.ease = (IF ArgEase - 20 < 130 THEN 130 ELSE ArgEase - 20)
        /\ fn.q = "hard" =>
              /\ fn.cur.step = ArgStep
              /\ fn.cur.ease = (IF ArgEase - 5 < 130 THEN 130 ELSE ArgEase - 5)
        /\ fn.q = "good" =>
              /\ fn.cur.step = (IF ArgStep + 1 > 4 THEN 4 ELSE ArgStep + 1)
              /\ fn.cur.ease = ArgEase
        /\ fn.q = "easy" =>
              /\ fn.cur.step = (IF ArgStep + 2 > 4 THEN 4 ELSE ArgStep + 2)
              /\ fn.cur.ease = (IF ArgEase + 5 > 300 THEN 300 ELSE ArgEase + 5)
        /\ fn.q \notin {"again", "hard", "good", "easy"} =>
              /\ fn.cur.step = (IF ArgStep + 1 > 4 THEN 4 ELSE ArgStep + 1)
              /\ fn.cur.ease = ArgEase

(* a first grading with a grade the table does not know, and a clamp hit *)
C3_Witness ==
    /\ Scheduled /\ ~fn.raised
    /\ \/ /\ fn.q = "meh" /\ fn.arg.ease = Absent /\ fn.arg.step = Absent
          /\ fn.cur.ease = 250 /\ fn.cur.step = 1
       \/ /\ fn.q = "again" /\ fn.arg.ease = 145 /\ fn.cur.ease = 130
          /\ fn.n = 2

(* C4: after schedule_next the due date is the day of the call plus the     *)
(* ladder's interval at the step AFTER the transition: step 0 graded again  *)
(* gives today+1, step 1 graded easy gives today+14.                        *)
C4_DueFromNewStep ==
    (Scheduled /\ ValidSchedArg(fn.arg)) =>
        LET p == FromIsoFormat(fn.cur.due) IN
        /\ ~fn.raised
        /\ p.ok
        /\ p.dt.day = fn.schedDay + SRS_INTERVALS_DAYS[fn.cur.step + 1]
        /\ (ArgStep = 0 /\ fn.q = "again") => p.dt.day = fn.schedDay + 1
        /\ (ArgStep = 1 /\ fn.q = "easy") => p.dt.day = fn.schedDay + 14

C4_Witness ==
    /\ Scheduled /\ ~fn.raised
    /\ fn.arg.step = 1 /\ fn.q = "easy" /\ fn.cur.step = 3
    /\ FromIsoFormat(fn.cur.due).dt.day = fn.schedDay + 14

(* C6 as claimed: is_due is true on a missing, empty or unparseable due,    *)
(* and otherwise true exactly when today's date >= the due date.  A due     *)
(* text that carries a time of day or an offset is, on either reading (not  *)
(* a calendar date, or a date today or earlier), due once its day has come. *)
C6_IsDueByDate ==
    fn.checked =>
        LET due == fn.cur.due IN
        /\ due.kind \in {"absent", "null", "empty", "garbage"} => fn.isdue
        /\ due.kind = "date" => (fn.isdue <=> today >= due.day)
        /\ (due.kind \in {"datetime", "aware"} /\ today >= due.day) => fn.isdue

(* C7 as claimed: the due value schedule_next writes is a calendar date     *)
(* YYYY-MM-DD with no time of day and no offset.                            *)
C7_DueIsCalendarDate ==
    (Scheduled /\ ~fn.raised) => fn.cur.due.kind = "date"

----------------------------------------------------------------------------
(* Claims on the card store *)

(* the identity key of the data model: (lowercase(term), lang or "auto") *)
IdentityKey(c) ==
    <<Lower(c.term),
      (IF c.lang \in {AbsentS, NullS} THEN "auto" ELSE c.lang)>>

(* C1 as claimed: after any sequence of upserts no two cards of the         *)
(* persisted store share the identity key (lowercase(term), lang or "auto") *)
C1_IdentityUnique ==
    \A i \in 1 .. Len(file.cards) : \A j \in 1 .. Len(file.cards) :
        i # j => IdentityKey(file.cards[i]) # IdentityKey(file.cards[j])

UpsertDone == last.op = "upsert" /\ ~last.raised /\ Len(last.items) > 0

(* the items of the call that were merged into the card at idx, in order *)
MergedInto(idx) == {i \in 1 .. Len(last.items) : last.merged[i] = idx}

LastOf(S) == CHOOSE i \in S : \A j \in S : j <= i

(* C2: a merge keeps every field the incoming item omits or gives as null   *)
(* (ease, step and due of a graded card stay when no item supplies them)    *)
(* and takes every non-null incoming value (the later item's, when two      *)
(* items of the call are merged into the same card).                        *)
C2_MergeKeepsOmitted ==
    UpsertDone =>
        \A idx \in 1 .. Len(last.pre) :
            LET old == last.pre[idx]
                new == file.cards[idx]
                hits == MergedInto(idx)
                te == {i \in hits : last.items[i].term \notin {AbsentS, NullS}}
                la == {i \in hits : last.items[i].lang \notin {AbsentS, NullS}}
                tr == {i \in hits : last.items[i].translation \notin {AbsentS, NullS}}
                ea == {i \in hits : last.items[i].ease \notin {Absent, Null}}
                st == {i \in hits : last.items[i].step \notin {Absent, Null}}
                du == {i \in hits : last.items[i].due.kind \notin {"absent", "null"}}
            IN  /\ new.term = IF te = {} THEN old.term ELSE last.items[LastOf(te)].term
                /\ new.lang = IF la = {} THEN old.lang ELSE last.items[LastOf(la)].lang
                /\ new.translation = IF tr = {} THEN old.translation
                                     ELSE last.items[LastOf(tr)].translation
                /\ new.ease = IF ea = {} THEN old.ease ELSE last.items[LastOf(ea)].ease
                /\ new.step = IF st = {} THEN old.step ELSE last.items[LastOf(st)].step
                /\ new.due = IF du = {} THEN old.due ELSE last.items[LastOf(du)].due

(* a graded card gets a new translation and keeps ease, step and due, and  *)
(* the same call merges an item whose translation is null                  *)
C2_Witness ==
    /\ UpsertDone
    /\ Len(last.items) = 2
    /\ last.merged = <<1, 1>>
    /\ last.items[1].translation = "home"
    /\ last.items[2].translation = NullS
    /\ last.pre[1].translation = "house"
    /\ last.pre[1].ease = 230 /\ last.pre[1].step = 0
    /\ last.pre[1].due.kind = "datetime"
    /\ file.cards[1].translation = "home"
    /\ file.cards[1].ease = 230 /\ file.cards[1].step = 0
    /\ file.cards[1].due = last.pre[1].due

(* C5 as claimed: after any upserts and gradings every stored card that     *)
(* carries ease and step has 1.3 <= ease <= 3.0 and 0 <= step <= K-1        *)
C5_EaseStepInRange ==
    \A i \in 1 .. Len(file.cards) :
        LET c == file.cards[i] IN
        (c.ease \notin {Absent, Null} /\ c.step \notin {Absent, Null}) =>
            /\ 130 <= c.ease /\ c.ease <= 300
            /\ 0 <= c.step /\ c.step <= K - 1

(* C9: upsert_cards on a list with an item that lacks a term raises; it    *)
(* returns no count and persists nothing of the call, so the item is not   *)
(* skipped while the others are stored.                                    *)
C9_MissingTermRaises ==
    (last.op = "upsert" /\ \E i \in 1 .. Len(last.items) : last.items[i].term = AbsentS) =>
        /\ last.raised
        /\ last.count = 0
        /\ file.cards = last.pre

(* a term-less item after a good one, on a store that holds a card *)
C9_Witness ==
    /\ last.op = "upsert" /\ last.raised
    /\ Len(last.items) = 2
    /\ last.items[1].term = "Haus" /\ last.items[2].term = AbsentS
    /\ Len(last.pre) = 1
    /\ file.cards = last.pre

(* C10 as claimed: on a corrupted or unparseable document load returns the  *)
(* empty default schema, so upsert, review and grading complete without    *)
(* error.                                                                  *)
C10_CorruptNeverFails ==
    (last.foundCorrupt /\ ~last.badInput) => (~last.raised /\ view # "error")

(* C8 as claimed: when two load-mutate-save operations interleave, the      *)
(* final document is exactly the one written by the save that completes    *)
(* last (that operation's loaded snapshot plus its own mutation); no       *)
(* mixture of both documents is reachable.                                 *)
C8_LastWriteWins ==
    (Len(procs.order) = 2) =>
        file = Dumps(procs.p[procs.order[2]].db)

(* C13: a card that has just been graded is not due again on the day of    *)
(* grading: for every card with step in [0, K-1] and every grade,          *)
(* is_due(schedule_next(card, grade)) is false on that day and on every    *)
(* day before today + SRS_INTERVALS_DAYS[new step], and true from that day *)
(* on.                                                                     *)
C13_DueExactlyAfterInterval ==
    (Scheduled /\ ~fn.raised /\ fn.checked /\ ArgStep \in 0 .. (K - 1)) =>
        /\ fn.isdue <=> (today >= fn.schedDay + SRS_INTERVALS_DAYS[fn.cur.step + 1])
        /\ (today = fn.schedDay) => ~fn.isdue

(* a card graded to step 1 is found due three days later *)
C13_Witness ==
    /\ Scheduled /\ ~fn.raised /\ fn.checked /\ ArgStep \in 0 .. (K - 1)
    /\ fn.cur.step = 1
    /\ today = fn.schedDay + 3
    /\ fn.isdue

----------------------------------------------------------------------------
(* Claims on the review session and the order of the store (SpecReview) *)

IdentitySeq(cards) == [i \in 1 .. Len(cards) |-> IdentityKey(cards[i])]

IsPrefix(s, t) == Len(s) <= Len(t) /\ \A i \in 1 .. Len(s) : s[i] = t[i]

(* C11: no card is ever deleted or reordered: for every upsert or grading   *)
(* operation (and every other step of the app) the sequence of card        *)
(* identities in the persisted store before the step is a prefix of the    *)
(* sequence after it.                                                      *)
C11_NoDeleteNoReorder ==
    [][IsPrefix(IdentitySeq(file.cards), IdentitySeq(file'.cards))]_vars

(* an upsert of two items after a grading: the graded card is still first, *)
(* with the spelling the upsert merged into it, and the new card is last   *)
C11_Witness ==
    /\ last.op = "upsert" /\ ~last.raised /\ last.count = 2
    /\ nGrades = 1
    /\ Len(file.cards) = 2
    /\ file.cards[1].term = "haus" /\ file.cards[1].step # Absent
    /\ file.cards[2].term = "Buch" /\ file.cards[2].step = Absent
    /\ view = "complete"

(* C12 as claimed: every card that is due when a review session starts is  *)
(* presented for grading before "Session complete" is shown (on a store    *)
(* whose cards have distinct identities).                                  *)
C12_AllDueShown ==
    (view = "complete" /\ C1_IdentityUnique) => seen.due \subseteq seen.shown

====
